---- MODULE Spec2Model ----
(***************************************************************************)
(* A model of skbio.sequence._sequence.Sequence: the byte buffer with its  *)
(* ownership flag, the optional quality array, construction, indexing and  *)
(* the scoped byte-ownership window.                                       *)
(*                                                                         *)
(* numpy arrays are modelled as objects on a heap: an array object names   *)
(* a memory block and the positions of that block it shows (so a slice of  *)
(* an array is a second object over the same block), and carries its own   *)
(* WRITEABLE flag.  Two names for the same array object share the flag;    *)
(* two objects over one block share the contents only.                     *)
(***************************************************************************)
EXTENDS Integers, Sequences, FiniteSets, TLC

\* Longest symbol text, quality list or caller array handed to a constructor.
MaxLen == 2
\* Most Sequence instances alive at once.
MaxInst == 2
\* Longest list given as an index.
MaxList == 2
\* Longest text searched, cut into k-mers or matched against a pattern.
MaxText == 3
\* Most generators of one kind (kmers, position iterators) alive at once.
MaxGen == 2

\* Symbol codes used in texts ("A", "C") and a code outside ASCII.
Symbols == {65, 67}
NonAscii == {233}
\* The NUL symbol code.
Nul == 0
\* The code written through the byte-ownership window ("G").
WriteSyms == {71}
\* Quality values offered to constructors (-1 is the invalid one).
QVals == {-1, 0, 1}
Ids == {"", "x"}
Descriptions == {"", "d"}

VARIABLES
    mem,    \* memory blocks: a sequence of sequences of integers
    arr,    \* array objects: [m, pos, wr] over the memory blocks
    inst,   \* Sequence instances: [bytes, owns, id, description, quality]
    win,    \* per instance: is its _byte_ownership scope open
    last,   \* the last operation: what was called, with what, and how it ended
    gen,    \* kmers generators: [src, k, overlap, at, out]
    iters   \* position iterators: [of, rev, src, at, done, out]

vars == <<mem, arr, inst, win, last, gen, iters>>

-----------------------------------------------------------------------------
(* Generic helpers *)

SeqsUpTo(S, n) == UNION {[1..k -> S] : k \in 0..n}

\* An optional integer (a slice bound that may be None): <<>> or <<n>>.
NoneV == <<>>
Some(n) == <<n>>
IsNone(o) == Len(o) = 0

RECURSIVE Flatten(_)
Flatten(ss) == IF Len(ss) = 0 THEN <<>> ELSE Head(ss) \o Flatten(Tail(ss))

\* The heap as one value, so that operators can thread it.
Heap == [mem |-> mem, arr |-> arr]

\* The contents an array object shows.
DataIn(h, a) == [k \in 1..Len(h.arr[a].pos) |-> h.mem[h.arr[a].m][h.arr[a].pos[k]]]
Data(a) == DataIn(Heap, a)

\* A new array object over a new memory block holding data.
AllocIn(h, data, w) ==
    [mem |-> Append(h.mem, data),
     arr |-> Append(h.arr, [m |-> Len(h.mem) + 1,
                            pos |-> [k \in 1..Len(data) |-> k],
                            wr |-> w])]

\* A new array object over an existing memory block (a view).
ViewIn(h, m, pos, w) ==
    [mem |-> h.mem, arr |-> Append(h.arr, [m |-> m, pos |-> pos, wr |-> w])]

\* (mutant) the flag is set to the opposite value
SetFlagInFlipped(h, a, w) == [h EXCEPT !.arr[a].wr = ~w]

\* flags.writeable = w on array object a.
SetFlagIn(h, a, w) == [h EXCEPT !.arr[a].wr = w]

\* What is left of heap h1 when the objects made since h0 are dropped: the
\* flags set on the objects of h0 stay.
Discard(h0, h1) ==
    [mem |-> h0.mem, arr |-> [a \in 1..Len(h0.arr) |-> h1.arr[a]]]

-----------------------------------------------------------------------------
(* Sequence accessors *)

\* len(self): self._bytes.size
SeqLen(s) == Len(arr[inst[s].bytes].pos)
\* the symbols of instance s
SeqBytes(s) == Data(inst[s].bytes)
\* self._has_quality()
HasQuality(s) == inst[s].quality # 0
\* self.quality, read as a sequence (only when present)
SeqQuality(s) == Data(inst[s].quality)

-----------------------------------------------------------------------------
(* Arguments: what a constructor can be handed as `sequence` and `quality` *)

\* a text value (a sequence of character codes)
TextArg(v) == [k |-> "text", v |-> v]
\* an existing ndarray object, itself
ArrArg(a) == [k |-> "arr", a |-> a]
\* a new ndarray object showing positions pos of block m, made with step
ViewArg(m, pos, step) == [k |-> "view", m |-> m, pos |-> pos, step |-> step]
\* a new ndarray object holding its own data (fancy indexing, concatenate)
FreshArg(v) == [k |-> "fresh", v |-> v]
\* a numpy scalar (np.generic)
ScalarArg(v) == [k |-> "scalar", v |-> v]
\* a numpy bytes scalar (np.bytes_, an element of a '|S1' array) of text v
BytesScalarArg(v) == [k |-> "bytes_", v |-> v]
\* an ndarray of a dtype other than uint8 and '|S1'
BadDtypeArg == [k |-> "baddtype"]
\* a Sequence instance
SeqArg(s) == [k |-> "seq", s |-> s]
\* quality=None
NoQual == [k |-> "none"]
\* a Python list of integers
ListArg(v) == [k |-> "list", v |-> v]

\* The C_CONTIGUOUS flag of a new view: an array of at most one element made
\* with a step other than 1 is contiguous only in a numpy built with relaxed
\* stride checking.
IsContiguous(pos, step, relaxed) ==
    \/ Len(pos) = 0
    \/ step = 1
    \/ Len(pos) = 1 /\ relaxed

Ok(h) == [err |-> "", site |-> "", h |-> h]
Raise(e, site, h) == [err |-> e, site |-> site, h |-> h]

\* What _set_sequence does once the array it stores is known.
OwnsAfterContiguous(isSame) == ~isSame

\* Sequence._set_sequence: the stored array and the ownership flag.
SetSequence(h, sa, relaxed) ==
    CASE sa.k = "baddtype" ->
           Raise("TypeError", "dtype", h) @@ [bytes |-> 0, owns |-> FALSE]
      [] sa.k = "arr" ->
           \* np.ascontiguousarray returns the object itself
           Ok(SetFlagIn(h, sa.a, FALSE))
             @@ [bytes |-> sa.a, owns |-> OwnsAfterContiguous(TRUE)]
      [] sa.k = "view" ->
           IF IsContiguous(sa.pos, sa.step, relaxed)
           THEN Ok(ViewIn(h, sa.m, sa.pos, FALSE))
                  @@ [bytes |-> Len(h.arr) + 1, owns |-> OwnsAfterContiguous(TRUE)]
           ELSE Ok(AllocIn(h, [k \in 1..Len(sa.pos) |-> h.mem[sa.m][sa.pos[k]]], FALSE))
                  @@ [bytes |-> Len(h.arr) + 1, owns |-> OwnsAfterContiguous(FALSE)]
      [] sa.k = "fresh" ->
           Ok(AllocIn(h, sa.v, FALSE))
             @@ [bytes |-> Len(h.arr) + 1, owns |-> OwnsAfterContiguous(TRUE)]
      [] sa.k = "text" ->
           IF \E i \in 1..Len(sa.v) : sa.v[i] > 127
           THEN Raise("UnicodeEncodeError", "encode", h) @@ [bytes |-> 0, owns |-> FALSE]
           ELSE Ok(AllocIn(h, sa.v, FALSE)) @@ [bytes |-> Len(h.arr) + 1, owns |-> TRUE]
      [] sa.k = "scalar" ->
           Ok(AllocIn(h, <<sa.v>>, FALSE)) @@ [bytes |-> Len(h.arr) + 1, owns |-> TRUE]
      [] sa.k = "bytes_" ->
           \* np.fromstring gives one element for each byte of the scalar
           IF Len(sa.v) # 1
           THEN Raise("TypeError", "scalar", h) @@ [bytes |-> 0, owns |-> FALSE]
           ELSE Ok(AllocIn(h, sa.v, FALSE)) @@ [bytes |-> Len(h.arr) + 1, owns |-> TRUE]

\* The array _set_quality validates, before validation: np.asarray, the
\* reshape of a scalar, astype(int, copy=False), flags.writeable = False.
QualityArray(h, qa) ==
    CASE qa.k = "arr"    -> [h |-> SetFlagIn(h, qa.a, FALSE), q |-> qa.a]
      [] qa.k = "view"   -> [h |-> ViewIn(h, qa.m, qa.pos, FALSE), q |-> Len(h.arr) + 1]
      [] qa.k = "list"   -> [h |-> AllocIn(h, qa.v, FALSE), q |-> Len(h.arr) + 1]
      [] qa.k = "fresh"  -> [h |-> AllocIn(h, qa.v, FALSE), q |-> Len(h.arr) + 1]
      [] qa.k = "scalar" -> [h |-> AllocIn(h, <<qa.v>>, FALSE), q |-> Len(h.arr) + 1]

\* (mutant) the length of the quality array is not checked
QualityErrorNoLength(data, n) ==
    IF \E i \in 1..Len(data) : data[i] < 0 THEN "negative" ELSE ""

\* The checks of _set_quality on the array, in the code's order.
QualityError(data, n) ==
    IF Len(data) # n THEN "length"
    ELSE IF \E i \in 1..Len(data) : data[i] < 0 THEN "negative"
    ELSE ""

\* Sequence._set_quality for a sequence of n symbols: 0 stands for None.
SetQuality(h, qa, n) ==
    IF qa.k = "none" THEN Ok(h) @@ [quality |-> 0]
    ELSE LET r == QualityArray(h, qa)
             e == QualityError(DataIn(r.h, r.q), n)
         IN  IF e # "" THEN Raise("ValueError", e, r.h) @@ [quality |-> 0]
             ELSE Ok(r.h) @@ [quality |-> r.q]

\* (mutant) the quality of the source is not inherited
InitQualityGiven(sa, qa) == qa

\* The id, description and quality __init__ goes on with.
InitId(sa, id) == IF sa.k = "seq" /\ id = "" THEN inst[sa.s].id ELSE id
InitDescription(sa, d) ==
    IF sa.k = "seq" /\ d = "" THEN inst[sa.s].description ELSE d
InitQuality(sa, qa) ==
    IF sa.k = "seq" /\ qa.k = "none"
    THEN IF inst[sa.s].quality = 0 THEN NoQual ELSE ArrArg(inst[sa.s].quality)
    ELSE qa
InitSequence(sa) == IF sa.k = "seq" THEN ArrArg(inst[sa.s].bytes) ELSE sa

\* Sequence.__init__: the heap afterwards and, when nothing was raised, the
\* new instance.  An instance that was not built leaves only the flags it set.
Construct(h, sa, id, d, qa, relaxed) ==
    LET r1 == SetSequence(h, InitSequence(sa), relaxed)
    IN  IF r1.err # ""
        THEN [err |-> r1.err, site |-> r1.site, h |-> Discard(h, r1.h)]
        ELSE LET r2 == SetQuality(r1.h, InitQuality(sa, qa),
                                  Len(r1.h.arr[r1.bytes].pos))
             IN  IF r2.err # ""
                 THEN [err |-> r2.err, site |-> r2.site, h |-> Discard(h, r2.h)]
                 ELSE [err |-> "", site |-> "", h |-> r2.h,
                       rec |-> [bytes |-> r1.bytes, owns |-> r1.owns,
                                id |-> InitId(sa, id),
                                description |-> InitDescription(sa, d),
                                quality |-> r2.quality]]

\* The state after a call that built (or failed to build) an instance.
Built(op, src, arg, r) ==
    /\ mem' = r.h.mem
    /\ arr' = r.h.arr
    /\ inst' = IF r.err = "" THEN Append(inst, r.rec) ELSE inst
    /\ win' = IF r.err = "" THEN Append(win, FALSE) ELSE win
    /\ last' = [op |-> op, src |-> src, arg |-> arg, err |-> r.err,
                site |-> r.site, res |-> IF r.err = "" THEN Len(inst) + 1 ELSE 0]

-----------------------------------------------------------------------------
(* The caller's arrays *)

\* The caller holds a uint8 array (object 1) and an int array (object 2).
CallerBytes == 1
CallerQual == CallerBytes + 1
CallerArrs == {CallerBytes, CallerQual}

Init ==
    /\ mem = << [k \in 1..MaxLen |-> IF k % 2 = 1 THEN 67 ELSE 65],
                [k \in 1..MaxLen |-> 1] >>
    /\ arr = << [m |-> 1, pos |-> [k \in 1..MaxLen |-> k], wr |-> TRUE],
                      [m |-> 2, pos |-> [k \in 1..MaxLen |-> k], wr |-> TRUE] >>
    /\ inst = <<>>
    /\ win = <<>>
    /\ last = [op |-> "init", src |-> 0, arg |-> NoQual, err |-> "", site |-> "",
               res |-> 0]
    /\ gen = <<>>
    /\ iters = <<>>

\* The quality arguments a caller passes.
QualArgs ==
    {NoQual} \cup {ListArg(v) : v \in SeqsUpTo(QVals, MaxLen)}
             \cup {ArrArg(CallerQual)}

\* Sequence(text, id, description, quality)
ConstructText(v, id, d, qa) ==
    /\ Built("construct", 0,
             [seq |-> TextArg(v), id |-> id, description |-> d, quality |-> qa],
             Construct(Heap, TextArg(v), id, d, qa, TRUE))
    /\ UNCHANGED <<gen, iters>>

\* The arrays a caller passes as `sequence`: its uint8 array, a '|S1' view of
\* it, a reversed view of it, and an array of another dtype.
CallerSeqArg(kind) ==
    CASE kind = "uint8"    -> ArrArg(CallerBytes)
      [] kind = "S1"       -> ViewArg(arr[CallerBytes].m, arr[CallerBytes].pos, 1)
      [] kind = "reversed" ->
           ViewArg(arr[CallerBytes].m,
                   [k \in 1..MaxLen |-> arr[CallerBytes].pos[MaxLen + 1 - k]], -1)
      [] kind = "float"    -> BadDtypeArg
CallerKinds == {"uint8", "S1", "reversed", "float"}

\* Sequence(ndarray, id, description, quality)
ConstructArray(kind, id, d, qa, relaxed) ==
    /\ Built("construct", 0,
             [seq |-> [k |-> kind], id |-> id, description |-> d, quality |-> qa],
             Construct(Heap, CallerSeqArg(kind), id, d, qa, relaxed))
    /\ UNCHANGED <<gen, iters>>

\* Sequence(sequence, id, description, quality), sequence a Sequence
ConstructSeq(s, id, d, qa) ==
    /\ Built("copy", s,
             [seq |-> SeqArg(s), id |-> id, description |-> d, quality |-> qa],
             Construct(Heap, SeqArg(s), id, d, qa, TRUE))
    /\ UNCHANGED <<gen, iters>>


-----------------------------------------------------------------------------
(* Index values *)

\* an integer
IntIx(i) == [k |-> "int", i |-> i]
\* slice(start, stop, step), each an optional integer
SliceIx(start, stop, step) ==
    [k |-> "slice", start |-> start, stop |-> stop, step |-> step]
\* a Python bool
BoolIx(b) == [k |-> "bool", b |-> b]
\* a text value
StrIx == [k |-> "str"]
\* a list of integers, bools, slices and text values
ListIx(v) == [k |-> "list", v |-> v]
\* an ndarray of dtype "bool", "int", "float" or "str"
NdIx(dtype, v) == [k |-> "nd", dtype |-> dtype, v |-> v]

\* The dtype np.asarray gives a list.
AsArrayDtype(v) ==
    IF Len(v) = 0 THEN "float"
    ELSE IF \E i \in 1..Len(v) : v[i].k = "slice" THEN "object"
    ELSE IF \E i \in 1..Len(v) : v[i].k = "str" THEN "str"
    ELSE IF \A i \in 1..Len(v) : v[i].k = "bool" THEN "bool"
    ELSE "int"

\* np.asarray of a list that holds no slice.
AsArray(v) ==
    LET dt == AsArrayDtype(v)
    IN  CASE dt = "bool" -> NdIx(dt, [i \in 1..Len(v) |-> v[i].b])
          [] dt = "int"  -> NdIx(dt, [i \in 1..Len(v) |->
                                 IF v[i].k = "bool"
                                 THEN (IF v[i].b THEN 1 ELSE 0) ELSE v[i].i])
          [] OTHER       -> NdIx(dt, [i \in 1..Len(v) |-> 0])

\* A slice bound brought into range, as slice.indices(n) does.
ClampBound(b, n, lower, upper) ==
    IF b < 0 THEN (IF b + n < lower THEN lower ELSE b + n)
    ELSE (IF b > upper THEN upper ELSE b)

\* The positions (from 0) slice sl selects of n elements, in order.
SliceIndices(sl, n) ==
    LET step  == IF IsNone(sl.step) THEN 1 ELSE sl.step[1]
        lower == IF step < 0 THEN -1 ELSE 0
        upper == IF step < 0 THEN n - 1 ELSE n
        start == IF IsNone(sl.start) THEN (IF step < 0 THEN upper ELSE lower)
                 ELSE ClampBound(sl.start[1], n, lower, upper)
        stop  == IF IsNone(sl.stop) THEN (IF step < 0 THEN lower ELSE upper)
                 ELSE ClampBound(sl.stop[1], n, lower, upper)
        span  == IF step < 0 THEN start - stop ELSE stop - start
        astep == IF step < 0 THEN -step ELSE step
        count == IF span <= 0 THEN 0 ELSE (span + astep - 1) \div astep
    IN  [k \in 1..count |-> start + (k - 1) * step]

SliceStep(sl) == IF IsNone(sl.step) THEN 1 ELSE sl.step[1]

\* The positions (from 0) of the true entries of a boolean vector.
RECURSIVE TruePositions(_, _)
TruePositions(v, from) ==
    IF Len(v) = 0 THEN <<>>
    ELSE (IF Head(v) THEN <<from>> ELSE <<>>) \o TruePositions(Tail(v), from + 1)

\* array[ix] for an array object a: a numpy scalar for an integer, a view for
\* a slice, a new array for an integer or boolean array; numpy raises
\* IndexError for a position out of range and for an array of text.
ArrayGet(h, a, ix) ==
    LET n == Len(h.arr[a].pos)
        d == DataIn(h, a)
        norm(i) == IF i < 0 THEN i + n ELSE i
        inRange(i) == -n <= i /\ i < n
    IN  CASE ix.k = "int" ->
               IF inRange(ix.i) THEN Ok(h) @@ [arg |-> ScalarArg(d[norm(ix.i) + 1])]
               ELSE Raise("IndexError", "numpy", h)
          [] ix.k = "bool" ->
               \* a bool is an int to numpy: True is 1, False is 0
               IF (IF ix.b THEN 1 ELSE 0) < n
               THEN Ok(h) @@ [arg |-> ScalarArg(d[(IF ix.b THEN 1 ELSE 0) + 1])]
               ELSE Raise("IndexError", "numpy", h)
          [] ix.k = "slice" ->
               LET p == SliceIndices(ix, n)
               IN  Ok(h) @@ [arg |-> ViewArg(h.arr[a].m,
                                             [k \in 1..Len(p) |-> h.arr[a].pos[p[k] + 1]],
                                             SliceStep(ix))]
          [] ix.k = "nd" /\ ix.dtype = "int" ->
               IF \A k \in 1..Len(ix.v) : inRange(ix.v[k])
               THEN Ok(h) @@ [arg |-> FreshArg([k \in 1..Len(ix.v) |-> d[norm(ix.v[k]) + 1]])]
               ELSE Raise("IndexError", "numpy", h)
          [] ix.k = "nd" /\ ix.dtype = "bool" ->
               LET p == TruePositions(ix.v, 0)
               IN  IF Len(ix.v) = n
                   THEN Ok(h) @@ [arg |-> FreshArg([k \in 1..Len(p) |-> d[p[k] + 1]])]
                   ELSE Raise("IndexError", "numpy", h)
          [] OTHER -> Raise("IndexError", "numpy", h)

\* (mutant) -1 is treated like every other integer
ElementSliceClosed(e) ==
    IF e.k = "slice" THEN e ELSE SliceIx(Some(e.i), Some(e.i + 1), NoneV)

\* (mutant) every integer gives a slice open at the end
ElementSliceOpen(e) ==
    IF e.k = "slice" THEN e ELSE SliceIx(Some(e.i), NoneV, NoneV)

\* The slice _slices_from_iter makes of one element of the iterable.
ElementSlice(e) ==
    IF e.k = "slice" THEN e
    ELSE IF e.i = -1 THEN SliceIx(Some(e.i), NoneV, NoneV)
    ELSE SliceIx(Some(e.i), Some(e.i + 1), NoneV)

\* An element _slices_from_iter accepts: a slice, or an integer that is no bool.
IsSliceable(e) == e.k = "slice" \/ e.k = "int"

\* np.concatenate(list(self._slices_from_iter(array, indexables)))
SlicesFromIter(h, a, v) ==
    IF \E i \in 1..Len(v) : ~IsSliceable(v[i])
    THEN Raise("IndexError", "element", h)
    ELSE LET d == DataIn(h, a)
             seg(i) == LET p == SliceIndices(ElementSlice(v[i]), Len(d))
                       IN  [k \in 1..Len(p) |-> d[p[k] + 1]]
         IN  Ok(h) @@ [arg |-> FreshArg(Flatten([i \in 1..Len(v) |-> seg(i)]))]

\* (mutant) the description is not handed on
ToWithoutDescription(h, s, sa, qa, relaxed) ==
    Construct(h, sa, inst[s].id, "", qa, relaxed)

\* Sequence._to(sequence=sa, quality=qa) of instance s
To(h, s, sa, qa, relaxed) ==
    Construct(h, sa, inst[s].id, inst[s].description, qa, relaxed)

\* (mutant) the length of a boolean vector is not checked
MaskLengthUnchecked(ix, n) == FALSE

\* The test __getitem__ makes of a boolean vector index.
MaskLengthWrong(ix, n) == ix.k = "nd" /\ ix.dtype = "bool" /\ Len(ix.v) # n

\* (mutant) an empty array keeps its dtype
EmptyKept(ix) == ix

\* An empty ndarray is converted to an integer array before it is used.
EmptyAsInt(ix) == IF ix.k = "nd" /\ Len(ix.v) = 0 THEN NdIx("int", <<>>) ELSE ix

\* The tail of __getitem__: the mask length check, the empty array made an
\* integer array, the two arrays indexed alike.
NativeGetItem(h, s, ix, relaxed) ==
    IF MaskLengthWrong(ix, SeqLen(s))
    THEN Raise("IndexError", "mask_length", h)
    ELSE LET ix2 == EmptyAsInt(ix)
             b == ArrayGet(h, inst[s].bytes, ix2)
         IN  IF b.err # "" THEN b
             ELSE IF HasQuality(s)
                  THEN LET q == ArrayGet(h, inst[s].quality, ix2)
                       IN  IF q.err # "" THEN q ELSE To(h, s, b.arg, q.arg, relaxed)
                  ELSE To(h, s, b.arg, NoQual, relaxed)

\* The branch of __getitem__ for an iterable np.asarray makes an object array.
MixedGetItem(h, s, v, relaxed) ==
    LET b == SlicesFromIter(h, inst[s].bytes, v)
    IN  IF b.err # "" THEN b
        ELSE IF HasQuality(s)
             THEN LET q == SlicesFromIter(h, inst[s].quality, v)
                  IN  To(h, s, b.arg, q.arg, relaxed)
             ELSE To(h, s, b.arg, NoQual, relaxed)

\* (mutant) a bool is not told from an integer
IsRefusedScalarNoBool(ix) == ix.k = "str"

\* The scalars __getitem__ refuses: text and bool.
IsRefusedScalar(ix) == ix.k = "str" \/ ix.k = "bool"

\* Sequence.__getitem__
GetItemResult(h, s, ix, relaxed) ==
    IF ix.k = "list"
    THEN IF AsArrayDtype(ix.v) = "object"
         THEN MixedGetItem(h, s, ix.v, relaxed)
         ELSE NativeGetItem(h, s, AsArray(ix.v), relaxed)
    ELSE IF IsRefusedScalar(ix)
         THEN Raise("IndexError", "type", h)
         ELSE NativeGetItem(h, s, ix, relaxed)

\* s[ix]
GetItem(s, ix, relaxed) ==
    /\ Built("getitem", s, ix, GetItemResult(Heap, s, ix, relaxed))
    /\ UNCHANGED <<gen, iters>>


-----------------------------------------------------------------------------
(* The byte-ownership scope *)

\* The state after a call that builds no instance.
Called(op, s, arg, h, err, site) ==
    /\ mem' = h.mem
    /\ arr' = h.arr
    /\ last' = [op |-> op, src |-> s, arg |-> arg, err |-> err, site |-> site,
                res |-> 0]

\* _byte_ownership up to its yield: a private copy for an instance that does
\* not own its bytes, then flags.writeable = True.
Acquire(s) ==
    /\ ~win[s]
    /\ IF ~inst[s].owns
       THEN /\ Called("acquire", s, NoQual, AllocIn(Heap, SeqBytes(s), TRUE), "", "")
            /\ inst' = [inst EXCEPT ![s].bytes = Len(arr) + 1, ![s].owns = TRUE]
       ELSE /\ Called("acquire", s, NoQual, SetFlagIn(Heap, inst[s].bytes, TRUE), "", "")
            /\ inst' = inst
    /\ win' = [win EXCEPT ![s] = TRUE]
    /\ UNCHANGED <<gen, iters>>

\* self._bytes[k] = v in the body of the scope; numpy refuses to write through
\* an array object that is not writeable.
Write(s, k, v) ==
    /\ win[s]
    /\ k \in 1..SeqLen(s)
    /\ arr[inst[s].bytes].wr
    /\ Called("write", s, [k |-> "write", i |-> k, v |-> v],
              [Heap EXCEPT !.mem[arr[inst[s].bytes].m][arr[inst[s].bytes].pos[k]] = v],
              "", "")
    /\ UNCHANGED <<inst, win, gen, iters>>

\* The flags of the buffer when the scope is left: the statement after the
\* yield runs when the body returns, and does not when the body raises.
FlagAtExit(raised, w) == IF raised THEN w ELSE FALSE

\* The body of the scope returns.
Release(s) ==
    /\ win[s]
    /\ Called("release", s, NoQual,
              SetFlagIn(Heap, inst[s].bytes, FlagAtExit(FALSE, arr[inst[s].bytes].wr)),
              "", "")
    /\ win' = [win EXCEPT ![s] = FALSE]
    /\ UNCHANGED <<inst, gen, iters>>

\* The body of the scope raises: the error leaves the scope at the yield.
Fail(s) ==
    /\ win[s]
    /\ Called("fail", s, NoQual,
              SetFlagIn(Heap, inst[s].bytes, FlagAtExit(TRUE, arr[inst[s].bytes].wr)),
              "Error", "body")
    /\ win' = [win EXCEPT ![s] = FALSE]
    /\ UNCHANGED <<inst, gen, iters>>

-----------------------------------------------------------------------------
(* Search *)

\* x is a contiguous part of y
IsSubstring(x, y) ==
    \E i \in 0..(Len(y) - Len(x)) : \A k \in 1..Len(x) : y[i + k] = x[k]

\* Sequence._munge_to_sequence: a Sequence as it is (all instances here are of
\* the one type), anything else through Sequence(other).  The symbols of the
\* result, and the heap the temporary instance leaves behind.
MungeToSequence(h, other, relaxed) ==
    IF other.k = "seq"
    THEN Ok(h) @@ [bytes |-> DataIn(h, inst[other.s].bytes)]
    ELSE LET r == Construct(h, other, "", "", NoQual, relaxed)
         IN  IF r.err # "" THEN r
             ELSE Ok(Discard(h, r.h)) @@ [bytes |-> DataIn(r.h, r.rec.bytes)]

\* subsequence in s
Contains(s, kind, other, relaxed) ==
    LET r == MungeToSequence(Heap, other, relaxed)
    IN  /\ mem' = r.h.mem
        /\ arr' = r.h.arr
        /\ last' = [op |-> "contains", src |-> s, arg |-> [k |-> kind],
                    err |-> r.err, site |-> r.site,
                    res |-> IF r.err = "" /\ IsSubstring(r.bytes, SeqBytes(s))
                            THEN 1 ELSE 0]
        /\ UNCHANGED <<inst, win, gen, iters>>

\* The bounds bytes.index and bytes.count search between, for a text of n
\* bytes: None is the end of the text it stands at, a negative bound counts
\* from the end once, a stop beyond the end is the end.
SearchStart(start, n) ==
    IF IsNone(start) THEN 0
    ELSE IF start[1] >= 0 THEN start[1]
    ELSE IF start[1] + n < 0 THEN 0 ELSE start[1] + n
SearchStop(stop, n) ==
    IF IsNone(stop) THEN n
    ELSE IF stop[1] > n THEN n
    ELSE IF stop[1] >= 0 THEN stop[1]
    ELSE IF stop[1] + n < 0 THEN 0 ELSE stop[1] + n

\* x stands in y at offset i
OccursAt(x, y, i) == i >= 0 /\ i + Len(x) <= Len(y) /\ \A k \in 1..Len(x) : y[i + k] = x[k]

\* bytes.find(x, lo, hi) on bounds already adjusted: the least offset in
\* [lo, hi - len(x)] where x stands, or 0 - 1.
BytesFind(y, x, lo, hi) ==
    LET at == {i \in lo..(hi - Len(x)) : OccursAt(x, y, i)}
    IN  IF at = {} THEN 0 - 1 ELSE CHOOSE i \in at : \A j \in at : i <= j

\* An exception of kind e is caught by `except ValueError`: the two Unicode
\* errors are subclasses of ValueError.
IsValueError(e) == e \in {"ValueError", "UnicodeEncodeError", "UnicodeDecodeError"}

\* The state after a search that converted its argument, leaving heap h.
Searched(op, s, arg, h, err, site, res) ==
    /\ mem' = h.mem
    /\ arr' = h.arr
    /\ last' = [op |-> op, src |-> s, arg |-> arg, err |-> err, site |-> site,
                res |-> res]
    /\ UNCHANGED <<inst, win, gen, iters>>

\* s.index(subsequence, start, end): the conversion of the argument is inside
\* the try, so a ValueError it raises is replaced like that of bytes.index.
Index(s, other, start, end) ==
    LET arg == [sub |-> other, start |-> start, end |-> end]
        r == MungeToSequence(Heap, other, TRUE)
        y == SeqBytes(s)
        i == BytesFind(y, r.bytes, SearchStart(start, Len(y)), SearchStop(end, Len(y)))
    IN  IF r.err # ""
        THEN IF IsValueError(r.err)
             THEN Searched("index", s, arg, r.h, "ValueError", "not_found", 0)
             ELSE Searched("index", s, arg, r.h, r.err, r.site, 0)
        ELSE IF i < 0
             THEN Searched("index", s, arg, r.h, "ValueError", "not_found", 0)
             ELSE Searched("index", s, arg, r.h, "", "", i)

\* len(subsequence) of the argument as it was passed (the array of floats a
\* caller passes holds one value)
ArgLen(o) ==
    CASE o.k = "text" -> Len(o.v)
      [] o.k = "seq"  -> SeqLen(o.s)
      [] OTHER        -> 1

\* (mutant) the scan goes on one byte after a match
CountStepOne(x) == 1

\* How far bytes.count moves on after a match of x.
CountStep(x) == Len(x)

\* bytes.count(x, lo, hi) for a non-empty x on bounds already adjusted: the
\* matches found scanning from lo, each search starting where the last
\* match ended.
RECURSIVE BytesCount(_, _, _, _)
BytesCount(y, x, lo, hi) ==
    LET i == BytesFind(y, x, lo, hi)
    IN  IF i < 0 THEN 0 ELSE 1 + BytesCount(y, x, i + CountStep(x), hi)

\* s.count(subsequence, start, end)
Count(s, other, start, end) ==
    LET arg == [sub |-> other, start |-> start, end |-> end]
        r == MungeToSequence(Heap, other, TRUE)
        y == SeqBytes(s)
    IN  IF ArgLen(other) = 0
        THEN Searched("count", s, arg, Heap, "ValueError", "empty", 0)
        ELSE IF r.err # "" THEN Searched("count", s, arg, r.h, r.err, r.site, 0)
        ELSE Searched("count", s, arg, r.h, "", "",
                      BytesCount(y, r.bytes, SearchStart(start, Len(y)),
                                 SearchStop(end, Len(y))))

-----------------------------------------------------------------------------
(* Comparison *)

\* The state after a call that answers res and builds no instance.
Answered(op, s, arg, err, site, res) ==
    /\ last' = [op |-> op, src |-> s, arg |-> arg, err |-> err, site |-> site,
                res |-> res]
    /\ UNCHANGED <<mem, arr, inst, win, gen, iters>>

\* The names `ignore` is searched for.
Features == {"type", "id", "description", "quality", "sequence"}

\* self.__class__: every instance here is built by Sequence itself.
ClassOf(s) == "Sequence"

\* self.quality as a value: <<>> for None, <<q>> for an array showing q.
QualityValue(s) == IF HasQuality(s) THEN <<SeqQuality(s)>> ELSE <<>>

\* (mutant) None is equal to every array
ArrayEqualNoneAny(a, b) == Len(a) = 0 \/ Len(b) = 0 \/ a[1] = b[1]

\* np.array_equal of two quality values: None becomes a 0-d array, whose
\* shape () is the shape of no 1-D array; two such arrays hold None = None.
ArrayEqual(a, b) ==
    IF Len(a) = 0 \/ Len(b) = 0 THEN Len(a) = Len(b)
    ELSE Len(a[1]) = Len(b[1]) /\ \A k \in 1..Len(a[1]) : a[1][k] = b[1][k]

\* Sequence.equals: the checks in the code's order.
EqualsResult(s, t, ignore) ==
    IF "type" \notin ignore /\ ClassOf(s) # ClassOf(t) THEN FALSE
    ELSE IF "id" \notin ignore /\ inst[s].id # inst[t].id THEN FALSE
    ELSE IF "description" \notin ignore
              /\ inst[s].description # inst[t].description THEN FALSE
    ELSE IF "quality" \notin ignore
              /\ ~ArrayEqual(QualityValue(s), QualityValue(t)) THEN FALSE
    ELSE IF "sequence" \notin ignore /\ SeqBytes(s) # SeqBytes(t) THEN FALSE
    ELSE TRUE

\* s.equals(t, ignore)
Equals(s, t, ignore) ==
    Answered("equals", s, [other |-> t, ignore |-> ignore], "", "",
             EqualsResult(s, t, ignore))

\* (mutant) the last symbol is lost in decoding
DecodeAsciiShort(b) ==
    IF \E i \in 1..Len(b) : b[i] > 127 THEN [err |-> "UnicodeDecodeError", text |-> <<>>]
    ELSE [err |-> "", text |-> SubSeq(b, 1, Len(b) - 1)]

\* bytes.decode("ascii"): the character codes are the byte values, and a byte
\* above 127 is no ASCII character.
DecodeAscii(b) ==
    IF \E i \in 1..Len(b) : b[i] > 127 THEN [err |-> "UnicodeDecodeError", text |-> <<>>]
    ELSE [err |-> "", text |-> b]

\* str(s)
Str(s) ==
    LET r == DecodeAscii(SeqBytes(s))
    IN  IF r.err = "" THEN Answered("str", s, NoQual, "", "", r.text)
        ELSE Answered("str", s, NoQual, r.err, "decode", 0)

\* Sequence(text) for the text the last str(s) returned
Reconstruct ==
    /\ last.op = "str" /\ last.err = ""
    /\ Built("reconstruct", last.src,
             [seq |-> TextArg(last.res), id |-> "", description |-> "",
              quality |-> NoQual],
             Construct(Heap, TextArg(last.res), "", "", NoQual, TRUE))
    /\ UNCHANGED <<gen, iters>>

\* Sequence(np.array(v, dtype=np.uint8), id, description, quality): the array
\* is made for the call.
ConstructBytes(v, id, d, qa) ==
    /\ Built("construct", 0,
             [seq |-> [k |-> "bytes"], id |-> id, description |-> d, quality |-> qa],
             Construct(Heap, FreshArg(v), id, d, qa, TRUE))
    /\ UNCHANGED <<gen, iters>>

-----------------------------------------------------------------------------
(* Distances and matches *)

\* np.invert of a boolean vector
Invert(v) == [k \in 1..Len(v) |-> ~v[k]]

\* The number of true entries of a boolean vector.
CountTrue(v) == Cardinality({k \in 1..Len(v) : v[k]})

\* The mean of a vector of n numbers that sum to x, kept as the pair
\* <<x, n>>; the mean of no numbers is not a number.
Mean(x, n) == IF n = 0 THEN "nan" ELSE <<x, n>>

\* (mutant) every position matches
MatchesVectorAll(a, b) == [k \in 1..Len(a) |-> TRUE]

\* self._bytes == other._bytes for arrays of one length
MatchesVector(a, b) == [k \in 1..Len(a) |-> a[k] = b[k]]

\* Sequence.matches: the converted argument, the length check, the vector.
Compared(s, r) ==
    IF r.err # "" THEN [err |-> r.err, site |-> r.site, h |-> r.h, v |-> <<>>]
    ELSE IF SeqLen(s) # Len(r.bytes)
         THEN [err |-> "ValueError", site |-> "length", h |-> r.h, v |-> <<>>]
    ELSE [err |-> "", site |-> "", h |-> r.h, v |-> MatchesVector(SeqBytes(s), r.bytes)]
MatchesResult(s, other) == Compared(s, MungeToSequence(Heap, other, TRUE))

\* s.matches(other)
MatchesOf(s, other, r) ==
    Searched("matches", s, [other |-> other], r.h, r.err, r.site,
             IF r.err = "" THEN r.v ELSE 0)
Matches(s, other) == MatchesOf(s, other, MatchesResult(s, other))

\* s.mismatches(other): np.invert(self.matches(other))
MismatchesOf(s, other, r) ==
    Searched("mismatches", s, [other |-> other], r.h, r.err, r.site,
             IF r.err = "" THEN Invert(r.v) ELSE 0)
Mismatches(s, other) == MismatchesOf(s, other, MatchesResult(s, other))

\* Sequence.mismatch_frequency: the mean of the mismatch vector, or its sum.
MismatchFrequencyValue(v, relative) ==
    IF relative THEN Mean(CountTrue(Invert(v)), Len(v)) ELSE CountTrue(Invert(v))

\* s.mismatch_frequency(other, relative)
MismatchFrequencyOf(s, other, relative, r) ==
    Searched("mismatch_frequency", s, [other |-> other, relative |-> relative],
             r.h, r.err, r.site,
             IF r.err = "" THEN MismatchFrequencyValue(r.v, relative) ELSE 0)
MismatchFrequency(s, other, relative) ==
    MismatchFrequencyOf(s, other, relative, MatchesResult(s, other))

\* (mutant) the positions that agree are counted
HammingAgree(u, v) == Mean(Cardinality({k \in 1..Len(u) : u[k] = v[k]}), Len(u))

\* scipy.spatial.distance.hamming(u, v) for arrays of one length: the
\* proportion of positions where they disagree.
Hamming(u, v) == Mean(Cardinality({k \in 1..Len(u) : u[k] # v[k]}), Len(u))

\* The metrics a caller passes: the difference of the two lengths, and the
\* number of symbols of the first array that the second does not hold.
Metrics == {"length_difference", "missing"}
ApplyMetric(m, u, v) ==
    IF m = "length_difference"
    THEN <<(IF Len(u) > Len(v) THEN Len(u) - Len(v) ELSE Len(v) - Len(u)), 1>>
    ELSE <<Cardinality({k \in 1..Len(u) : \A j \in 1..Len(v) : v[j] # u[k]}), 1>>

\* s.distance(other, metric): metric is "" for None.
DistanceOf(s, arg, r) ==
    IF r.err # "" THEN Searched("distance", s, arg, r.h, r.err, r.site, 0)
    ELSE IF arg.metric = ""
         THEN IF SeqLen(s) # Len(r.bytes)
              THEN Searched("distance", s, arg, r.h, "ValueError", "length", 0)
              ELSE Searched("distance", s, arg, r.h, "", "",
                            Hamming(SeqBytes(s), r.bytes))
    ELSE Searched("distance", s, arg, r.h, "", "",
                  ApplyMetric(arg.metric, SeqBytes(s), r.bytes))
Distance(s, other, metric) ==
    DistanceOf(s, [other |-> other, metric |-> metric],
               MungeToSequence(Heap, other, TRUE))

-----------------------------------------------------------------------------
(* Patterns *)

\* lookup[i] for a 1-D array: a negative i counts from the end, and an i
\* outside [-n, n) is refused.
NpIndexOk(lookup, i) == 0 - Len(lookup) <= i /\ i < Len(lookup)
NpIndex(lookup, i) == lookup[(IF i < 0 THEN i + Len(lookup) ELSE i) + 1]

\* np.arange(n)
Arange(n) == [k \in 1..n |-> k - 1]

\* What regex.finditer(string) can return for a string of m characters: each
\* match gives every group a span <<start, end>> within the string, or
\* <<-1, -1>> for a group that took no part in the match.
Spans(m) == {sp \in (0..m) \X (0..m) : sp[1] <= sp[2]}
GroupSpans(m) == Spans(m) \cup {<<-1, -1>>}

\* slice(lookup[match.start(g)], lookup[match.end(g) - 1] + 1), or nothing
\* when one of the two lookups is refused.
GroupSlice(lookup, sp) ==
    IF NpIndexOk(lookup, sp[1]) /\ NpIndexOk(lookup, sp[2] - 1)
    THEN <<SliceIx(Some(NpIndex(lookup, sp[1])),
                   Some(NpIndex(lookup, sp[2] - 1) + 1), NoneV)>>
    ELSE <<>>

\* The slices the two loops yield until a lookup is refused.
RECURSIVE YieldSlices(_, _)
YieldSlices(lookup, spans) ==
    IF Len(spans) = 0 THEN [out |-> <<>>, err |-> ""]
    ELSE LET g == GroupSlice(lookup, Head(spans))
         IN  IF Len(g) = 0 THEN [out |-> <<>>, err |-> "IndexError"]
             ELSE LET r == YieldSlices(lookup, Tail(spans))
                  IN  [out |-> g \o r.out, err |-> r.err]

\* The lookup table and the string the pattern is matched against: all
\* positions, or the positions the mask does not exclude.
Decoded(d, lookup) ==
    [err |-> d.err, site |-> IF d.err = "" THEN "" ELSE "decode",
     lookup |-> lookup, string |-> d.text]
Included(r, include) ==
    IF r.err # ""
    THEN [err |-> r.err, site |-> r.site, lookup |-> <<>>, string |-> <<>>]
    ELSE Decoded(DecodeAscii(DataIn(r.h, r.rec.bytes)), TruePositions(include, 0))
RegexString(s, exclude) ==
    IF Len(exclude) = 0
    THEN Decoded(DecodeAscii(SeqBytes(s)), Arange(SeqLen(s)))
    ELSE Included(GetItemResult(Heap, s, NdIx("bool", Invert(exclude[1])), TRUE),
                  Invert(exclude[1]))

\* The two loops over the matches `found` of the pattern in t.string.
Yielded(s, arg, y) ==
    Answered("slices_from_regex", s, arg, y.err,
             IF y.err = "" THEN "" ELSE "lookup", y.out)
SlicesOf(s, arg, t) ==
    IF t.err # ""
    THEN Answered("slices_from_regex", s, arg, t.err, t.site, <<>>)
    ELSE /\ \A i \in 1..Len(arg.found) : \A g \in 1..Len(arg.found[i]) :
               arg.found[i][g] \in GroupSpans(Len(t.string))
         /\ Yielded(s, arg, YieldSlices(t.lookup, Flatten(arg.found)))

\* list(s.slices_from_regex(regex, exclude)) for a pattern whose matches in
\* the string are `found`: the slices yielded, and the error that ended the
\* iteration if one did.
SlicesFromRegex(s, exclude, found) ==
    SlicesOf(s, [exclude |-> exclude, found |-> found], RegexString(s, exclude))

-----------------------------------------------------------------------------
(* k-mers *)

\* (mutant) the windows always advance by one
KmerStepOne(k, overlap) == 1

\* step = 1 if overlap else k
KmerStep(k, overlap) == IF overlap THEN 1 ELSE k

\* Offset i is produced by range(0, n - k + 1, step) when reached.
InKmerRange(i, n, k) == i < n - k + 1

\* s.kmers(k, overlap): the call makes a generator and runs none of the body,
\* so it cannot fail; `at` is 0 - 1 until the body has started.
Kmers(s, k, overlap) ==
    /\ gen' = Append(gen, [src |-> s, k |-> k, overlap |-> overlap,
                           at |-> 0 - 1, done |-> FALSE, out |-> <<>>])
    /\ last' = [op |-> "kmers", src |-> s, arg |-> [k |-> k, overlap |-> overlap],
                err |-> "", site |-> "", res |-> Len(gen) + 1]
    /\ UNCHANGED <<mem, arr, inst, win, iters>>

\* The state after next(g) ended the generator with error e.
Ended(g, e, site) ==
    /\ gen' = [gen EXCEPT ![g].done = TRUE]
    /\ last' = [op |-> "next", src |-> gen[g].src, arg |-> [g |-> g],
                err |-> e, site |-> site, res |-> 0]
    /\ UNCHANGED <<mem, arr, inst, win, iters>>

\* next(g): the body of kmers runs to its next yield.  The first call checks
\* k and starts the range; every call yields self[i:i+k] for the next i of
\* the range, or ends the generator.
KmersNext(g) ==
    LET r == gen[g]
        i == IF r.at < 0 THEN 0 ELSE r.at
    IN  IF r.done THEN Ended(g, "StopIteration", "exhausted")
        ELSE IF r.at < 0 /\ r.k < 1 THEN Ended(g, "ValueError", "k")
        ELSE IF ~InKmerRange(i, SeqLen(r.src), r.k)
             THEN Ended(g, "StopIteration", "exhausted")
        ELSE /\ Built("next", r.src, [g |-> g],
                      GetItemResult(Heap, r.src,
                                    SliceIx(Some(i), Some(i + r.k), NoneV), TRUE))
             /\ gen' = [gen EXCEPT ![g].at = i + KmerStep(r.k, r.overlap),
                                   ![g].out = Append(r.out, Len(inst) + 1)]
             /\ UNCHANGED iters

\* len(range(0, stop, step)) for a positive step
RangeLen(stop, step) == IF stop <= 0 THEN 0 ELSE (stop + step - 1) \div step

\* The symbols of the windows a full run of kmers(k, overlap) yields, k >= 1.
KmerWindows(s, k, overlap) ==
    LET step == KmerStep(k, overlap)
        d == SeqBytes(s)
        window(i) == LET p == SliceIndices(SliceIx(Some(i), Some(i + k), NoneV), Len(d))
                     IN  [x \in 1..Len(p) |-> d[p[x] + 1]]
    IN  [j \in 1..RangeLen(SeqLen(s) - k + 1, step) |-> window((j - 1) * step)]

\* collections.Counter over a list of texts
Counter(ws) ==
    [t \in {ws[j] : j \in 1..Len(ws)} |->
       Cardinality({j \in 1..Len(ws) : ws[j] = t})]

\* (mutant) the total is that of overlapping windows
NumKmersOverlapping(n, k, overlap) == n - k + 1

\* num_kmers: the total the counts are divided by.
NumKmers(n, k, overlap) == IF overlap THEN n - k + 1 ELSE n \div k

\* s.kmer_frequencies(k, overlap, relative).  A quotient count / num_kmers is
\* kept as the pair <<count, num_kmers>>; `unseen` is what a key that is not
\* in the table reads as (0 for the Counter, 0.0 for the defaultdict(float)).
KmerFrequencies(s, k, overlap, relative) ==
    LET arg == [k |-> k, overlap |-> overlap, relative |-> relative]
        ws == KmerWindows(s, k, overlap)
        freqs == Counter(ws)
        num == NumKmers(SeqLen(s), k, overlap)
    IN  IF k < 1 THEN Answered("kmer_frequencies", s, arg, "ValueError", "k", 0)
        ELSE IF \E j \in 1..Len(ws) : DecodeAscii(ws[j]).err # ""
             THEN Answered("kmer_frequencies", s, arg, "UnicodeDecodeError", "decode", 0)
        ELSE IF ~relative
             THEN Answered("kmer_frequencies", s, arg, "", "",
                           [table |-> freqs, unseen |-> 0])
        ELSE IF num = 0 /\ DOMAIN freqs # {}
             THEN Answered("kmer_frequencies", s, arg, "ZeroDivisionError", "num_kmers", 0)
        ELSE Answered("kmer_frequencies", s, arg, "", "",
                      [table |-> [t \in DOMAIN freqs |-> <<freqs[t], num>>],
                       unseen |-> <<0, 1>>])

-----------------------------------------------------------------------------
(* Iteration *)

\* An element of self.sequence, the '|S1' view of the bytes: numpy strips the
\* trailing NUL bytes of a bytes scalar, so the code 0 gives an empty one.
S1Element(c) == BytesScalarArg(IF c = Nul THEN <<>> ELSE <<c>>)

\* What zip_longest pairs with position i (from 0): the numpy scalar at i of
\* self.quality, or the fill value None when there is no quality.
QualityElement(s, i) ==
    IF HasQuality(s) THEN ScalarArg(SeqQuality(s)[i + 1]) ELSE NoQual

\* A new generator of __iter__ over instance src, made for iter(of) or for
\* reversed(of); none of the body has run.
NewIterator(of, rev, src) ==
    [of |-> of, rev |-> rev, src |-> src, at |-> 0, done |-> FALSE, out |-> <<>>]

\* iter(s): the call makes a generator and cannot fail.
Iter(s) ==
    /\ iters' = Append(iters, NewIterator(s, FALSE, s))
    /\ last' = [op |-> "iter", src |-> s, arg |-> NoQual, err |-> "", site |-> "",
                res |-> Len(iters) + 1]
    /\ UNCHANGED <<mem, arr, inst, win, gen>>

\* reversed(s): iter(self[::-1]); the reversed Sequence is built at the call.
ReversedOf(s, r) ==
    /\ Built("reversed", s, NoQual, r)
    /\ iters' = IF r.err = "" THEN Append(iters, NewIterator(s, TRUE, Len(inst) + 1))
                ELSE iters
    /\ UNCHANGED gen
Reversed(s, relaxed) ==
    ReversedOf(s, GetItemResult(Heap, s, SliceIx(NoneV, NoneV, Some(0 - 1)), relaxed))

\* The state after next(g) ended iterator g with StopIteration.
IterEnded(g) ==
    /\ iters' = [iters EXCEPT ![g].done = TRUE]
    /\ last' = [op |-> "next_item", src |-> iters[g].src, arg |-> [g |-> g],
                err |-> "StopIteration", site |-> "exhausted", res |-> 0]
    /\ UNCHANGED <<mem, arr, inst, win, gen>>

\* The state after next(g) ran self._to(sequence=c, quality=q) with outcome r:
\* the new Sequence is yielded, or the error ends the generator.
IterYield(g, r) ==
    /\ Built("next_item", iters[g].src, [g |-> g], r)
    /\ iters' = IF r.err = ""
                THEN [iters EXCEPT ![g].at = @ + 1,
                                   ![g].out = Append(@, Len(inst) + 1)]
                ELSE [iters EXCEPT ![g].done = TRUE]
    /\ UNCHANGED gen

\* next(g): the body of __iter__ runs to its next yield.
IterNext(g) ==
    IF iters[g].done \/ iters[g].at >= SeqLen(iters[g].src)
    THEN IterEnded(g)
    ELSE IterYield(g, To(Heap, iters[g].src,
                         S1Element(SeqBytes(iters[g].src)[iters[g].at + 1]),
                         QualityElement(iters[g].src, iters[g].at), TRUE))

-----------------------------------------------------------------------------
(* Inputs *)

AsciiTexts == SeqsUpTo(Symbols, MaxLen)
Texts == AsciiTexts \cup {<<c>> : c \in NonAscii}

IdxInts == (0 - MaxLen - 1)..MaxLen
SliceBounds == {NoneV} \cup {Some(i) : i \in -1..MaxLen}
SliceSteps == {NoneV, Some(-1), Some(2)}
Slices == {SliceIx(a, b, c) : a \in SliceBounds, b \in SliceBounds, c \in SliceSteps}
\* the elements lists of several kinds are made of
MixedElems == {IntIx(0), IntIx(-1), IntIx(-2), IntIx(MaxLen), BoolIx(TRUE), StrIx,
               SliceIx(Some(0), Some(1), NoneV), SliceIx(Some(1), NoneV, NoneV),
               SliceIx(NoneV, NoneV, Some(-1))}
Lists ==
    SeqsUpTo({IntIx(i) : i \in IdxInts}, MaxList)
      \cup SeqsUpTo({BoolIx(b) : b \in BOOLEAN}, MaxList)
      \cup SeqsUpTo(MixedElems, MaxList)
Indexes ==
    {IntIx(i) : i \in IdxInts} \cup Slices
      \cup {ListIx(v) : v \in Lists}
      \cup {NdIx("bool", v) : v \in SeqsUpTo(BOOLEAN, MaxLen + 1)}
      \cup {NdIx("int", <<>>), NdIx("float", <<>>)}
      \cup {StrIx} \cup {BoolIx(b) : b \in BOOLEAN}

-----------------------------------------------------------------------------
(* The caller *)

\* An error that reaches the caller ends the run, except the error of the
\* body of a byte-ownership scope, which the caller of the scope handles.
Running == last.err = "" \/ last.op = "fail"

\* No byte-ownership scope is open.
NoWindow == \A t \in 1..Len(inst) : ~win[t]

-----------------------------------------------------------------------------
(* Specification Spec: instances are built, derived from one another and  *)
(* opened for writing, over a small set of inputs.                         *)

Alternating(n) == [k \in 1..n |-> IF k % 2 = 1 THEN 65 ELSE 67]
TextsM == {Alternating(MaxLen)} \cup {<<c>> : c \in NonAscii}
LabelsM == {<<"x", "d">>}
QualArgsM == {NoQual, ArrArg(CallerQual), ListArg(<<-1>>)}
IndexesM == {IntIx(0), SliceIx(Some(0), Some(1), NoneV),
             SliceIx(Some(1), NoneV, NoneV), SliceIx(NoneV, NoneV, Some(-1)),
             ListIx(<<IntIx(0)>>), StrIx}
OthersM ==
    {<<kd, CallerSeqArg(kd)>> : kd \in {"uint8", "float"}}
      \cup {<<"text", TextArg(Alternating(1))>>}

Next ==
    \/ /\ Running /\ Len(inst) < MaxInst
       /\ \E v \in TextsM, l \in LabelsM, qa \in QualArgsM :
             ConstructText(v, l[1], l[2], qa)
    \/ /\ Running /\ Len(inst) < MaxInst
       /\ \E kd \in CallerKinds, l \in LabelsM, qa \in QualArgsM, relaxed \in BOOLEAN :
             ConstructArray(kd, l[1], l[2], qa, relaxed)
    \/ /\ Running /\ Len(inst) < MaxInst
       /\ \E s \in 1..Len(inst), l \in LabelsM, qa \in QualArgsM :
             ConstructSeq(s, l[1], l[2], qa)
    \/ /\ Running /\ Len(inst) < MaxInst
       /\ \E s \in 1..Len(inst), ix \in IndexesM, relaxed \in BOOLEAN :
             GetItem(s, ix, relaxed)
    \/ /\ Running /\ last.op # "contains"
       /\ \E s \in 1..Len(inst), o \in OthersM : Contains(s, o[1], o[2], TRUE)
    \/ /\ Running /\ NoWindow
       /\ \E s \in 1..Len(inst) : Acquire(s)
    \/ /\ Running
       /\ \E s \in 1..Len(inst), k \in 1..MaxLen, v \in WriteSyms : Write(s, k, v)
    \/ /\ Running
       /\ \E s \in 1..Len(inst) : Release(s)
    \/ /\ Running
       /\ \E s \in 1..Len(inst) : Fail(s)

Spec == Init /\ [][Next]_vars

-----------------------------------------------------------------------------
(* Specification SpecDerive: a Sequence is built from any of the inputs,   *)
(* then one Sequence is derived from it, by indexing or by construction.   *)

NextDerive ==
    \/ /\ Running /\ Len(inst) = 0
       /\ \E v \in Texts, id \in Ids, d \in Descriptions, qa \in QualArgs :
             ConstructText(v, id, d, qa)
    \/ /\ Running /\ Len(inst) = 0
       /\ \E kd \in CallerKinds, id \in Ids, d \in Descriptions, qa \in QualArgs,
             relaxed \in BOOLEAN :
             ConstructArray(kd, id, d, qa, relaxed)
    \/ /\ Running /\ Len(inst) = 1
       /\ \E id \in Ids, d \in Descriptions, qa \in QualArgs :
             ConstructSeq(1, id, d, qa)
    \/ /\ Running /\ Len(inst) = 1
       /\ \E ix \in Indexes, relaxed \in BOOLEAN : GetItem(1, ix, relaxed)

SpecDerive == Init /\ [][NextDerive]_vars


-----------------------------------------------------------------------------
(* Specification SpecPair: two Sequences are built, then one is compared    *)
(* with the other or with itself, or decoded and built again.              *)

TextsP == SeqsUpTo(Symbols, MaxLen)
BytesP == {<<c>> : c \in NonAscii}
LabelsP == {<<"", "">>, <<"x", "">>, <<"", "d">>}
QualArgsP ==
    {NoQual, ListArg([k \in 1..MaxLen |-> 1])}
      \cup {ListArg([k \in 1..n |-> 0]) : n \in 0..MaxLen}
IgnoreSets ==
    {{}, {"id"}, {"description"}, {"quality"}, {"sequence"}, {"type"},
     {"quality", "id"}, Features}

\* What the first Sequence is compared with: itself, the second Sequence, a
\* text, a text outside ASCII, an array of floats.
OthersP ==
    {SeqArg(1), SeqArg(2), BadDtypeArg}
      \cup {TextArg(v) : v \in {Alternating(MaxLen)} \cup BytesP}

\* The last call built an instance or failed to.
AfterBuild == last.op \in {"init", "construct"}

NextPair ==
    \/ /\ Running /\ Len(inst) < 2
       /\ \E v \in TextsP, l \in LabelsP, qa \in QualArgsP :
             ConstructText(v, l[1], l[2], qa)
    \/ /\ Running /\ Len(inst) < 2
       /\ \E v \in BytesP, l \in LabelsP, qa \in QualArgsP :
             ConstructBytes(v, l[1], l[2], qa)
    \/ /\ Running /\ Len(inst) = 2 /\ AfterBuild
       /\ \E s \in 1..2, t \in 1..2, ign \in IgnoreSets : Equals(s, t, ign)
    \/ /\ Running /\ Len(inst) = 2 /\ AfterBuild
       /\ \E s \in 1..2 : Str(s)
    \/ /\ Running /\ Len(inst) = 2
       /\ Reconstruct
    \/ /\ Running /\ Len(inst) = 2 /\ AfterBuild
       /\ \E o \in OthersP, m \in {""} \cup Metrics : Distance(1, o, m)
    \/ /\ Running /\ Len(inst) = 2 /\ AfterBuild
       /\ \E o \in OthersP : Matches(1, o)
    \/ /\ Running /\ Len(inst) = 2 /\ AfterBuild
       /\ \E o \in OthersP : Mismatches(1, o)
    \/ /\ Running /\ Len(inst) = 2 /\ AfterBuild
       /\ \E o \in OthersP, relative \in BOOLEAN : MismatchFrequency(1, o, relative)

SpecPair == Init /\ [][NextPair]_vars

-----------------------------------------------------------------------------
(* Specification SpecText: one Sequence is built, then searched, matched    *)
(* against a pattern or cut into k-mers.                                   *)

TextsT == SeqsUpTo(Symbols, MaxText)
Matches1 == {<<sp>> : sp \in GroupSpans(MaxText)}
Matches2 == {<<sp1, sp2>> : sp1 \in GroupSpans(MaxText), sp2 \in GroupSpans(MaxText)}
\* no match, one match of one or two groups, two matches of one group
FoundLists ==
    {<<>>} \cup {<<m>> : m \in Matches1 \cup Matches2}
           \cup {<<m1, m2>> : m1 \in Matches1, m2 \in Matches1}
\* exclude=None, or a boolean vector as long as the Sequence
Excludes(n) == {<<>>} \cup {<<v>> : v \in [1..n -> BOOLEAN]}

\* k from 0 (refused) to one more than the longest text
KValues == 0..(MaxText + 1)
\* The caller is iterating: the end of a generator does not end the run.
Iterating == Len(inst) >= 1 /\ last.op \in {"construct", "kmers", "next"}

\* What is searched for: short texts, a text outside ASCII, an array of
\* floats, and the Sequence itself.
OthersT ==
    {TextArg(v) : v \in SeqsUpTo(Symbols, 2) \cup BytesP} \cup {BadDtypeArg, SeqArg(1)}
SearchBounds == {NoneV} \cup {Some(i) : i \in (0 - 1)..(MaxText + 1)}

NextText ==
    \/ /\ Running /\ Len(inst) = 0
       /\ \E v \in TextsT : ConstructText(v, "x", "d", NoQual)
    \/ /\ Running /\ Len(inst) = 0
       /\ \E v \in BytesP : ConstructBytes(v, "x", "d", NoQual)
    \/ /\ Running /\ Len(inst) = 1 /\ AfterBuild
       /\ \E ex \in Excludes(SeqLen(1)), found \in FoundLists :
             SlicesFromRegex(1, ex, found)
    \/ /\ Running /\ Len(inst) = 1 /\ AfterBuild
       /\ \E k \in KValues, overlap \in BOOLEAN, relative \in BOOLEAN :
             KmerFrequencies(1, k, overlap, relative)
    \/ /\ Running /\ Len(inst) = 1 /\ AfterBuild
       /\ \E o \in OthersT, start \in SearchBounds, end \in SearchBounds :
             Index(1, o, start, end)
    \/ /\ Running /\ Len(inst) = 1 /\ AfterBuild
       /\ \E o \in OthersT, start \in SearchBounds, end \in SearchBounds :
             Count(1, o, start, end)
    \/ /\ Iterating /\ Len(gen) < MaxGen
       /\ \E k \in KValues, overlap \in BOOLEAN : Kmers(1, k, overlap)
    \/ /\ Iterating
       /\ \E g \in 1..Len(gen) : KmersNext(g)

SpecText == Init /\ [][NextText]_vars

-----------------------------------------------------------------------------
(* Specification SpecIter: one Sequence is built, then iterated forwards    *)
(* and backwards, or indexed with a list of integers.                       *)

TextsI == SeqsUpTo(Symbols \cup {Nul}, MaxLen)
LabelsI == {<<"", "">>, <<"x", "d">>}
\* no quality, or the quality n - 1, ..., 0 for n symbols
QualArgsI == {NoQual} \cup {ListArg([k \in 1..n |-> n - k]) : n \in 0..MaxLen}

\* slice(0, 0)
EmptySlice == SliceIx(Some(0), Some(0), NoneV)
\* lists of integers, in range or not, alone and followed by the empty slice
IntLists == SeqsUpTo({IntIx(i) : i \in IdxInts}, MaxList)
ListsI == IntLists \cup {Append(v, EmptySlice) : v \in IntLists}

\* The caller is iterating: the end of an iterator does not end the run.
IteratingI ==
    Len(inst) >= 1 /\ last.op \in {"construct", "iter", "reversed", "next_item"}
\* There is an iterator made by iter (rev = FALSE) or by reversed (rev = TRUE).
HasIterator(rev) == \E g \in 1..Len(iters) : iters[g].rev = rev

NextIter ==
    \/ /\ Running /\ Len(inst) = 0
       /\ \E v \in TextsI, l \in LabelsI, qa \in QualArgsI :
             ConstructText(v, l[1], l[2], qa)
    \/ /\ Running /\ Len(inst) = 0
       /\ \E v \in BytesP, l \in LabelsI : ConstructBytes(v, l[1], l[2], NoQual)
    \/ /\ IteratingI /\ ~HasIterator(FALSE)
       /\ Iter(1)
    \/ /\ IteratingI /\ ~HasIterator(TRUE)
       /\ \E relaxed \in BOOLEAN : Reversed(1, relaxed)
    \/ /\ IteratingI
       /\ \E g \in 1..Len(iters) : IterNext(g)
    \/ /\ Running /\ Len(inst) = 1 /\ AfterBuild
       /\ \E v \in ListsI : GetItem(1, ListIx(v), TRUE)

SpecIter == Init /\ [][NextIter]_vars

-----------------------------------------------------------------------------
(* Properties *)

WindowOps == {"acquire", "write", "release", "fail"}

\* The entries of d at positions p (counted from 0).
At(d, p) == [k \in 1..Len(p) |-> d[p[k] + 1]]

\* The last call returned a new instance.
Returned == last.err = "" /\ last.res = Len(inst) /\ last.res # last.src

\* The last call raised e and returned nothing.
Raised(e) == last.err = e /\ last.res = 0

SameLabels(s, r) ==
    inst[r].id = inst[s].id /\ inst[r].description = inst[s].description

\* r holds the symbols, and the quality when there is one, of s at positions p.
Selects(s, r, p) ==
    /\ SeqBytes(r) = At(SeqBytes(s), p)
    /\ HasQuality(r) = HasQuality(s)
    /\ HasQuality(s) => SeqQuality(r) = At(SeqQuality(s), p)

\* C1: when a byte-ownership scope has been left, by return or by error, the
\* buffer of its instance is not writeable.
C1_RestoredOnEveryExit ==
    last.op \in {"release", "fail"} => ~arr[inst[last.src].bytes].wr

\* C2: a write made through the scope of one instance changes the symbols of
\* no other instance.
C2_WritesArePrivate ==
    [][last'.op = "write" =>
         \A t \in 1..Len(inst) : t # last'.src => SeqBytes(t)' = SeqBytes(t)]_vars

\* What an operation outside the scope may not touch: the memory blocks, what
\* each array object shows, the instances and their scopes.
FrameKept ==
    /\ \A m \in 1..Len(mem) : mem'[m] = mem[m]
    /\ \A a \in 1..Len(arr) : arr'[a].m = arr[a].m /\ arr'[a].pos = arr[a].pos
    /\ \A s \in 1..Len(inst) : inst'[s] = inst[s] /\ win'[s] = win[s]

\* C3, as stated: an operation other than the scoped acquisition changes
\* nothing that exists, the writability of every array included.
C3_Pure ==
    [][last'.op \notin WindowOps =>
         /\ FrameKept
         /\ \A a \in 1..Len(arr) : arr'[a].wr = arr[a].wr]_vars

\* The array objects the call recorded in l adopts without copying.
Adopted(l) ==
    CASE l.op = "construct" ->
           (IF l.arg.seq.k = "uint8" THEN {CallerBytes} ELSE {})
             \cup (IF l.arg.quality.k = "arr" THEN {l.arg.quality.a} ELSE {})
      [] l.op = "copy" ->
           {inst[l.src].bytes}
             \cup (IF l.arg.quality.k = "arr" THEN {l.arg.quality.a}
                   ELSE IF l.arg.quality.k = "none" /\ inst[l.src].quality # 0
                        THEN {inst[l.src].quality} ELSE {})
      [] l.op = "contains" ->
           IF l.arg.k = "uint8" THEN {CallerBytes} ELSE {}
      [] OTHER -> {}

\* C3, amended: an operation other than the scoped acquisition changes no
\* contents, no instance and no scope; the one thing it changes is the
\* WRITEABLE flag of the array objects it adopts, which it sets to false.
C3_PureButFreezes ==
    [][last'.op \notin WindowOps =>
         /\ FrameKept
         /\ \A a \in 1..Len(arr) :
               arr'[a].wr # arr[a].wr => ~arr'[a].wr /\ a \in Adopted(last')]_vars

\* C3 witness: a membership test has frozen the caller's byte array.
C3_Witness ==
    /\ last.op = "contains" /\ last.arg.k = "uint8" /\ last.err = ""
    /\ ~arr[CallerBytes].wr


\* The quality handed to the last construction, as a list.
GivenQuality == IF last.arg.quality.k = "list" THEN last.arg.quality.v
                ELSE Data(last.arg.quality.a)

\* The number of symbols the last construction was handed; -1 when its
\* `sequence` argument is itself refused.
GivenLength ==
    CASE last.op = "copy" -> SeqLen(last.src)
      [] last.arg.seq.k = "text" ->
           IF \E i \in 1..Len(last.arg.seq.v) : last.arg.seq.v[i] > 127
           THEN -1 ELSE Len(last.arg.seq.v)
      [] last.arg.seq.k = "float" -> -1
      [] OTHER -> Len(arr[CallerBytes].pos)

\* C4: the quality of every instance is absent, or as long as the symbols and
\* non-negative; a construction handed a quality of another length, or one
\* with a negative value, raises ValueError and builds nothing.
C4_QualityAligned ==
    /\ \A s \in 1..Len(inst) :
          HasQuality(s) =>
             /\ Len(SeqQuality(s)) = SeqLen(s)
             /\ \A k \in 1..SeqLen(s) : SeqQuality(s)[k] >= 0
    /\ (last.op \in {"construct", "copy"} /\ last.arg.quality.k # "none"
          /\ GivenLength >= 0) =>
          /\ Len(GivenQuality) # GivenLength =>
                Raised("ValueError") /\ last.site = "length"
          /\ (Len(GivenQuality) = GivenLength
                /\ \E k \in 1..Len(GivenQuality) : GivenQuality[k] < 0) =>
                Raised("ValueError") /\ last.site = "negative"

\* C4 witness: indexing a sequence that has quality returned a sequence of
\* two symbols with quality.
C4_Witness ==
    /\ last.op = "getitem" /\ Returned
    /\ HasQuality(last.res) /\ SeqLen(last.res) = 2

IsIntList(ix) == ix.k = "list" /\ \A i \in 1..Len(ix.v) : ix.v[i].k = "int"
IsBoolList(ix) ==
    ix.k = "list" /\ Len(ix.v) > 0 /\ \A i \in 1..Len(ix.v) : ix.v[i].k = "bool"
IsMask(ix) == IsBoolList(ix) \/ (ix.k = "nd" /\ ix.dtype = "bool")
MaskValues(ix) == IF ix.k = "nd" THEN ix.v ELSE [i \in 1..Len(ix.v) |-> ix.v[i].b]

\* Position i of n counted from the end when negative.
FromEnd(i, n) == IF i < 0 THEN i + n ELSE i
InRange(i, n) == 0 - n <= i /\ i < n

\* An integer, a slice, a list of integers or a mask of length n, with every
\* integer in range.
IsUniform(ix, n) ==
    \/ ix.k = "int" /\ InRange(ix.i, n)
    \/ ix.k = "slice"
    \/ IsIntList(ix) /\ \A i \in 1..Len(ix.v) : InRange(ix.v[i].i, n)
    \/ IsMask(ix) /\ Len(MaskValues(ix)) = n

\* The positions such an index selects, in selection order.
Picked(ix, n) ==
    CASE ix.k = "int"   -> <<FromEnd(ix.i, n)>>
      [] ix.k = "slice" -> SliceIndices(ix, n)
      [] IsIntList(ix)  -> [i \in 1..Len(ix.v) |-> FromEnd(ix.v[i].i, n)]
      [] OTHER          -> TruePositions(MaskValues(ix), 0)

\* C5: indexing with an integer, a slice, a list of integers or a mask of
\* length N returns a new Sequence with the selected symbols in selection
\* order, the quality at the same positions, and the id and description of
\* the source.
C5_IndexSelects ==
    (last.op = "getitem" /\ IsUniform(last.arg, SeqLen(last.src))) =>
       /\ Returned
       /\ SameLabels(last.src, last.res)
       /\ Selects(last.src, last.res, Picked(last.arg, SeqLen(last.src)))

\* C5 witness: a source with quality, id and description was indexed with a
\* list of two different integers.
C5_Witness ==
    /\ last.op = "getitem" /\ Returned
    /\ IsIntList(last.arg) /\ Len(last.arg.v) = 2 /\ last.arg.v[1] # last.arg.v[2]
    /\ HasQuality(last.src) /\ inst[last.src].id = "x"
    /\ inst[last.src].description = "d"

\* A list np.asarray cannot make a numeric array of because it holds a slice.
IsMixed(ix) == ix.k = "list" /\ \E i \in 1..Len(ix.v) : ix.v[i].k = "slice"

\* The positions one element of a mixed list stands for: the slice itself,
\* the last position for -1, position i for an integer in range, and nothing
\* for an integer that is out of range.
Segment(e, n) ==
    IF e.k = "slice" THEN SliceIndices(e, n)
    ELSE IF InRange(e.i, n) THEN <<FromEnd(e.i, n)>> ELSE <<>>

\* C6: indexing with a list of slices and integers returns the segments of
\* its elements, concatenated in the given order, with the quality segments
\* alike and the id and description of the source.
C6_MixedConcatenates ==
    (last.op = "getitem" /\ IsMixed(last.arg)
       /\ \A i \in 1..Len(last.arg.v) : last.arg.v[i].k \in {"slice", "int"}) =>
       /\ Returned
       /\ SameLabels(last.src, last.res)
       /\ Selects(last.src, last.res,
                  Flatten([i \in 1..Len(last.arg.v) |->
                              Segment(last.arg.v[i], SeqLen(last.src))]))

\* C6 witness: a source of two symbols with quality was indexed with a slice
\* followed by -1.
C6_Witness ==
    /\ last.op = "getitem" /\ Returned /\ IsMixed(last.arg)
    /\ Len(last.arg.v) = 2 /\ last.arg.v[2] = IntIx(-1)
    /\ SeqLen(last.src) = 2 /\ HasQuality(last.src) /\ SeqLen(last.res) = 2

\* C7: a boolean mask of a length other than N raises IndexError (the check
\* of __getitem__) and returns nothing; a mask of length N never fails.
C7_MaskLength ==
    (last.op = "getitem" /\ IsMask(last.arg)) =>
       IF Len(MaskValues(last.arg)) # SeqLen(last.src)
       THEN Raised("IndexError") /\ last.site = "mask_length"
       ELSE Returned

\* C7 witness: a mask one longer than the source was refused.
C7_Witness ==
    /\ last.op = "getitem" /\ IsMask(last.arg)
    /\ Len(MaskValues(last.arg)) = SeqLen(last.src) + 1
    /\ Raised("IndexError")

\* A boolean selection of the right length that selects nothing.
IsAllFalseMask(ix, n) ==
    IsMask(ix) /\ Len(MaskValues(ix)) = n
      /\ \A i \in 1..n : ~MaskValues(ix)[i]

IsEmptyArray(ix) == ix.k = "nd" /\ Len(ix.v) = 0
IsEmptyList(ix) == ix.k = "list" /\ Len(ix.v) = 0

\* The last getitem returned an empty Sequence with the labels of its source.
ReturnedEmpty ==
    Returned /\ SeqLen(last.res) = 0 /\ SameLabels(last.src, last.res)

\* C8, as stated: the empty list, any empty array and a boolean selection that
\* selects nothing each give an empty Sequence with the id and description of
\* the source, whatever the length of the source.
C8_EmptySelections ==
    (last.op = "getitem"
       /\ (IsEmptyList(last.arg) \/ IsEmptyArray(last.arg)
             \/ IsAllFalseMask(last.arg, SeqLen(last.src)))) =>
       ReturnedEmpty

\* C8, amended: the same, except for an empty array of booleans indexing a
\* source that is not empty, which is a mask of the wrong length.
C8_EmptySelectionsButMask ==
    (last.op = "getitem"
       /\ (IsEmptyList(last.arg) \/ IsEmptyArray(last.arg)
             \/ IsAllFalseMask(last.arg, SeqLen(last.src)))
       /\ ~(IsEmptyArray(last.arg) /\ last.arg.dtype = "bool"
              /\ SeqLen(last.src) > 0)) =>
       ReturnedEmpty

\* C8 witness: an empty array of floats indexed a source of two symbols that
\* has an id.
C8_Witness ==
    /\ last.op = "getitem" /\ last.arg = NdIx("float", <<>>)
    /\ SeqLen(last.src) = 2 /\ inst[last.src].id = "x" /\ ReturnedEmpty

\* A list np.asarray cannot make a numeric or boolean array of, holding an
\* element that is neither a slice nor an integer.
IsBadList(ix) ==
    /\ ix.k = "list"
    /\ \E i \in 1..Len(ix.v) : ix.v[i].k \in {"slice", "str"}
    /\ \E i \in 1..Len(ix.v) : ix.v[i].k \notin {"slice", "int"}

\* C9: a text index, a bool index and a mixed list with an element that is
\* neither a slice nor an integer raise IndexError and return nothing.
C9_InvalidIndex ==
    (last.op = "getitem"
       /\ (last.arg.k \in {"str", "bool"} \/ IsBadList(last.arg))) =>
       Raised("IndexError")

\* C9 witness: a bool index was refused.
C9_Witness ==
    last.op = "getitem" /\ last.arg = BoolIx(TRUE) /\ Raised("IndexError")
      /\ SeqLen(last.src) = 2

\* C10: a Sequence built from a Sequence has the id, the description and the
\* quality given on the call, and the source's where none is given; it has
\* the symbols of the source, in the source's own array, which it does not
\* own.
C10_CopyInherits ==
    (last.op = "copy" /\ last.err = "") =>
       /\ Returned
       /\ inst[last.res].id =
             (IF last.arg.id # "" THEN last.arg.id ELSE inst[last.src].id)
       /\ inst[last.res].description =
             (IF last.arg.description # "" THEN last.arg.description
              ELSE inst[last.src].description)
       /\ IF last.arg.quality.k # "none"
          THEN HasQuality(last.res) /\ SeqQuality(last.res) = GivenQuality
          ELSE /\ HasQuality(last.res) = HasQuality(last.src)
               /\ HasQuality(last.src) => SeqQuality(last.res) = SeqQuality(last.src)
       /\ SeqBytes(last.res) = SeqBytes(last.src)
       /\ inst[last.res].bytes = inst[last.src].bytes
       /\ ~inst[last.res].owns

\* C10 witness: a source with id, description and quality was copied with a
\* new id only.
C10_Witness ==
    /\ last.op = "copy" /\ Returned
    /\ last.arg.id = "x" /\ last.arg.description = "" /\ last.arg.quality.k = "none"
    /\ inst[last.src].id = "" /\ inst[last.src].description = "d"
    /\ HasQuality(last.src) /\ SeqLen(last.src) = 2

\* Feature f is the same in instances s and t.
SameFeature(f, s, t) ==
    CASE f = "type"        -> TRUE
      [] f = "id"          -> inst[s].id = inst[t].id
      [] f = "description" -> inst[s].description = inst[t].description
      [] f = "quality"     ->
           /\ HasQuality(s) = HasQuality(t)
           /\ HasQuality(s) => SeqQuality(s) = SeqQuality(t)
      [] f = "sequence"    -> SeqBytes(s) = SeqBytes(t)

\* C11: equals(other, ignore) is true exactly when every feature not named in
\* ignore is the same in both instances (an absent quality equal only to an
\* absent one); it is reflexive and symmetric for every ignore set, and with
\* quality ignored it is what it would be for the other features alone.
C11_EqualsByFeatures ==
    last.op = "equals" =>
       LET s == last.src
           t == last.arg.other
           ign == last.arg.ignore
       IN  /\ last.err = ""
           /\ last.res = (\A f \in Features \ ign : SameFeature(f, s, t))
           /\ EqualsResult(s, s, ign)
           /\ EqualsResult(t, s, ign) = last.res
           /\ "quality" \in ign =>
                 last.res = (\A f \in (Features \ {"quality"}) \ ign :
                                SameFeature(f, s, t))

\* C11 witness: two instances that differ only in that one has quality were
\* compared with nothing ignored, and were found unequal.
C11_Witness ==
    /\ last.op = "equals" /\ last.arg.ignore = {} /\ last.res = FALSE
    /\ last.src # last.arg.other
    /\ HasQuality(last.src) /\ ~HasQuality(last.arg.other)
    /\ SameLabels(last.src, last.arg.other)
    /\ SeqBytes(last.src) = SeqBytes(last.arg.other) /\ SeqLen(last.src) = 2

\* C12, as stated: every instance decodes to a text, and the Sequence built
\* from that text equals the instance with nothing ignored.
C12_RoundTripEquals ==
    /\ last.op = "str" => last.err = ""
    /\ last.op = "reconstruct" =>
          Returned /\ EqualsResult(last.res, last.src, {})

\* C12, amended: an instance decodes to a text exactly when all its symbols
\* are ASCII; the Sequence built from that text has the symbols of the
\* instance, an empty id and description and no quality, so it equals the
\* instance with id, description and quality ignored, and with nothing
\* ignored exactly when the instance has none of the three.
C12_RoundTripSymbols ==
    /\ last.op = "str" =>
          IF \E k \in 1..SeqLen(last.src) : SeqBytes(last.src)[k] > 127
          THEN Raised("UnicodeDecodeError")
          ELSE last.err = "" /\ last.res = SeqBytes(last.src)
    /\ last.op = "reconstruct" =>
          /\ Returned
          /\ SeqBytes(last.res) = SeqBytes(last.src)
          /\ EqualsResult(last.res, last.src, {"id", "description", "quality"})
          /\ EqualsResult(last.res, last.src, {}) =
                (/\ inst[last.src].id = ""
                 /\ inst[last.src].description = ""
                 /\ ~HasQuality(last.src))

\* C12 witness: an instance of two symbols with an id and quality was decoded
\* and built again.
C12_Witness ==
    /\ last.op = "reconstruct" /\ Returned
    /\ SeqLen(last.src) = 2 /\ inst[last.src].id = "x" /\ HasQuality(last.src)

\* The positions of [a, b) the mask does not exclude, in order.
KeptIn(a, b, excl) ==
    TruePositions([k \in 1..Len(excl) |-> a <= k - 1 /\ k - 1 < b /\ ~excl[k]], 0)

\* The positions of the Sequence a group matched, given the positions kept.
MatchedAt(kept, sp) ==
    IF sp[1] < 0 THEN <<>> ELSE [k \in 1..(sp[2] - sp[1]) |-> kept[sp[1] + k]]

\* C13: when every group took part in its match, slices_from_regex yields
\* one slice per group per match, in order; each is [a, b) with
\* 0 <= a <= b <= N, the positions of it that are not excluded are the
\* positions the group matched, and without a mask it is the group's own
\* [start, end).
C13_SlicesCoverGroups ==
    (/\ last.op = "slices_from_regex"
     /\ \A k \in 1..SeqLen(last.src) : SeqBytes(last.src)[k] <= 127
     /\ \A i \in 1..Len(last.arg.found) : \A g \in 1..Len(last.arg.found[i]) :
           last.arg.found[i][g][1] >= 0) =>
       LET n == SeqLen(last.src)
           excl == IF Len(last.arg.exclude) = 0 THEN [k \in 1..n |-> FALSE]
                   ELSE last.arg.exclude[1]
           kept == TruePositions(Invert(excl), 0)
           spans == Flatten(last.arg.found)
       IN  /\ last.err = ""
           /\ Len(last.res) = Len(spans)
           /\ \A j \in 1..Len(spans) :
                 LET a == last.res[j].start[1]
                     b == last.res[j].stop[1]
                 IN  /\ 0 <= a /\ a <= b /\ b <= n
                     /\ KeptIn(a, b, excl) = MatchedAt(kept, spans[j])
                     /\ Len(last.arg.exclude) = 0 =>
                           a = spans[j][1] /\ b = spans[j][2]

\* C14: kmers with k < 1 fails with ValueError at the call itself.
C14_KmersFailsAtCall ==
    (last.op = "kmers" /\ last.arg.k < 1) => last.err = "ValueError"

\* The number of windows kmers(k, overlap) has for n symbols.
WindowCount(n, k, overlap) ==
    IF overlap THEN (IF n - k + 1 > 0 THEN n - k + 1 ELSE 0) ELSE n \div k

\* C15: for k >= 1 every generator yields windows of k symbols from offsets
\* 0, step, 2*step, ... of its source (step 1 when overlapping, k when not),
\* never fails, and ends after max(0, N-k+1) windows when overlapping and
\* N // k when not; each generator counts from offset 0 on its own.
C15_KmerWindows ==
    \A g \in 1..Len(gen) :
       gen[g].k >= 1 =>
          LET r == gen[g]
              n == SeqLen(r.src)
              step == IF r.overlap THEN 1 ELSE r.k
              count == WindowCount(n, r.k, r.overlap)
          IN  /\ Len(r.out) <= count
              /\ r.done => Len(r.out) = count
              /\ \A j \in 1..Len(r.out) :
                    /\ SeqLen(r.out[j]) = r.k
                    /\ SeqBytes(r.out[j]) =
                          SubSeq(SeqBytes(r.src), (j - 1) * step + 1, (j - 1) * step + r.k)
              /\ (last.op = "next" /\ last.arg.g = g /\ last.err # "") =>
                    last.err = "StopIteration" /\ Len(r.out) = count

\* C15 witness: two generators over one source of three symbols, one without
\* overlap and k = 2 that has ended after its one window, one with overlap
\* that has yielded two windows.
C15_Witness ==
    /\ Len(gen) = 2 /\ SeqLen(1) = 3
    /\ \E g \in 1..2, h \in 1..2 :
          /\ gen[g].k = 2 /\ ~gen[g].overlap /\ gen[g].done /\ Len(gen[g].out) = 1
          /\ gen[h].k = 2 /\ gen[h].overlap /\ Len(gen[h].out) = 2

\* The sum of f over the finite set S of its arguments.
RECURSIVE SumOver(_, _)
SumOver(f, S) ==
    IF S = {} THEN 0
    ELSE LET x == CHOOSE y \in S : TRUE IN f[x] + SumOver(f, S \ {x})

ConversionError(o) ==
    CASE o.k = "text" /\ (\E i \in 1..Len(o.v) : o.v[i] > 127) -> "UnicodeEncodeError"
      [] o.k = "baddtype" -> "TypeError"
      [] OTHER -> ""

\* The symbols searched for, once converted.
Needle(o) == IF o.k = "seq" THEN SeqBytes(o.s) ELSE o.v

\* The offsets in [start, end) of the text of n symbols where x stands whole.
Occurrences(x, y, start, end) ==
    {i \in SearchStart(start, Len(y))..(SearchStop(end, Len(y)) - Len(x)) :
        OccursAt(x, y, i)}

\* C17: index returns the first offset in [start, end) where the converted
\* subsequence stands; it raises the not-found ValueError exactly when the
\* subsequence was converted and stands nowhere there, and an argument that
\* cannot be converted raises the error of the conversion instead.
C17_IndexNotFound ==
    last.op = "index" =>
       LET e == ConversionError(last.arg.sub)
           occ == Occurrences(Needle(last.arg.sub), SeqBytes(last.src),
                              last.arg.start, last.arg.end)
       IN  IF e # "" THEN Raised(e) /\ last.site # "not_found"
           ELSE IF occ = {} THEN Raised("ValueError") /\ last.site = "not_found"
           ELSE last.err = "" /\ last.res \in occ /\ \A j \in occ : last.res <= j

\* The occurrences a left-to-right scan counts: an occurrence is counted
\* exactly when no counted occurrence before it reaches into it.
Scanned(occ, m) ==
    CHOOSE S \in SUBSET occ :
       \A i \in occ : (i \in S) = (\A j \in S : j < i => j + m <= i)

\* C18: count raises the empty-query ValueError for a subsequence of length
\* 0; for any other subsequence that converts it returns the number of
\* occurrences within [start, end) that a left-to-right scan without
\* overlaps finds.
C18_CountNonOverlapping ==
    last.op = "count" =>
       LET o == last.arg.sub
           e == ConversionError(o)
           occ == Occurrences(Needle(o), SeqBytes(last.src),
                              last.arg.start, last.arg.end)
       IN  IF o.k # "baddtype" /\ Len(Needle(o)) = 0
           THEN Raised("ValueError") /\ last.site = "empty"
           ELSE IF e # "" THEN Raised(e)
           ELSE last.err = "" /\ last.res = Cardinality(Scanned(occ, Len(Needle(o))))

\* C18 witness: "AA" was counted once in "AAA", where it stands twice.
C18_Witness ==
    /\ last.op = "count" /\ last.err = "" /\ last.res = 1
    /\ SeqBytes(last.src) = <<65, 65, 65>>
    /\ last.arg.sub = TextArg(<<65, 65>>)
    /\ IsNone(last.arg.start) /\ IsNone(last.arg.end)

\* The symbols the first Sequence is compared with, once converted.
OtherBytes(o) == IF o.k = "seq" THEN SeqBytes(o.s) ELSE o.v

\* The positions (from 1) where two texts of one length differ.
Differing(a, b) == {k \in 1..Len(a) : a[k] # b[k]}

\* C19: for an argument that converts, distance with the default metric
\* raises the length ValueError when the lengths differ, and for equal
\* lengths N > 0 is the number of differing positions over N, which is what
\* mismatch_frequency(other, relative=True) is; with a metric of the caller
\* it is the value of the metric on the two symbol arrays, whatever the
\* lengths.
C19_Distance ==
    (last.op = "distance" /\ ConversionError(last.arg.other) = "") =>
       LET a == SeqBytes(last.src)
           b == OtherBytes(last.arg.other)
       IN  IF last.arg.metric # ""
           THEN last.err = "" /\ last.res = ApplyMetric(last.arg.metric, a, b)
           ELSE IF Len(a) # Len(b)
                THEN Raised("ValueError") /\ last.site = "length"
           ELSE /\ last.err = ""
                /\ Len(a) > 0 =>
                      /\ last.res = <<Cardinality(Differing(a, b)), Len(a)>>
                      /\ last.res = MismatchFrequencyValue(
                                        MatchesResult(last.src, last.arg.other).v, TRUE)

\* C19 witness: the distance of two Sequences of two symbols that differ in
\* one position is one half.
C19_Witness ==
    /\ last.op = "distance" /\ last.arg.metric = "" /\ last.arg.other = SeqArg(2)
    /\ last.err = "" /\ SeqLen(last.src) = 2 /\ last.res = <<1, 2>>

\* C20: for an argument that converts, matches and mismatches raise the
\* length ValueError when the lengths differ; otherwise matches is a boolean
\* vector of length N, true where the symbols are equal, and mismatches is
\* its complement; a Sequence matches itself everywhere.
C20_Matches ==
    (last.op \in {"matches", "mismatches"} /\ ConversionError(last.arg.other) = "") =>
       LET a == SeqBytes(last.src)
           b == OtherBytes(last.arg.other)
       IN  IF Len(a) # Len(b) THEN Raised("ValueError") /\ last.site = "length"
           ELSE /\ last.err = ""
                /\ Len(last.res) = Len(a)
                /\ \A k \in 1..Len(a) :
                      last.res[k] = IF last.op = "matches" THEN a[k] = b[k]
                                    ELSE a[k] # b[k]
                /\ last.arg.other = SeqArg(last.src) =>
                      \A k \in 1..Len(a) : last.res[k] = (last.op = "matches")

\* C20 witness: the mismatches of two Sequences of two symbols that differ in
\* the second position only.
C20_Witness ==
    /\ last.op = "mismatches" /\ last.arg.other = SeqArg(2)
    /\ last.err = "" /\ last.res = <<FALSE, TRUE>>

\* The position (from 0) of a source of n symbols that item j of an iterator
\* stands for: j - 1 forwards, n - j backwards.
ItemPosition(rev, n, j) == IF rev THEN n - j ELSE j - 1

\* C21: an iterator made by iter or by reversed yields one Sequence of length 1
\* for every position of its source, forwards in the order 0, ..., N-1 and
\* backwards in the order N-1, ..., 0; each holds the symbol of its position,
\* the quality of that position when the source has a quality and none
\* otherwise, and the id and description of the source; the iterator ends
\* after N items and with no other error than the end of the iteration.
C21_IterationYieldsEveryPosition ==
    \A g \in 1..Len(iters) :
       LET r == iters[g]
           n == SeqLen(r.of)
       IN  /\ Len(r.out) <= n
           /\ r.done => Len(r.out) = n
           /\ \A j \in 1..Len(r.out) :
                 /\ Selects(r.of, r.out[j], <<ItemPosition(r.rev, n, j)>>)
                 /\ SameLabels(r.of, r.out[j])
           /\ (last.op = "next_item" /\ last.arg.g = g /\ last.err # "") =>
                 last.err = "StopIteration"

\* The last call indexed with a list of integers followed by the empty slice.
MixedIntList ==
    /\ last.op = "getitem" /\ last.arg.k = "list" /\ Len(last.arg.v) >= 1
    /\ last.arg.v[Len(last.arg.v)].k = "slice"
    /\ last.arg.v[Len(last.arg.v)] = EmptySlice
    /\ \A i \in 1..(Len(last.arg.v) - 1) : last.arg.v[i].k = "int"
\* The integers of that list, and the positions of n symbols that those in
\* range stand for.
IntPart == [i \in 1..(Len(last.arg.v) - 1) |-> last.arg.v[i].i]
RECURSIVE KeptPositions(_, _)
KeptPositions(L, n) ==
    IF Len(L) = 0 THEN <<>>
    ELSE (IF InRange(Head(L), n) THEN <<FromEnd(Head(L), n)>> ELSE <<>>)
            \o KeptPositions(Tail(L), n)
IntList(L) == ListIx([i \in 1..Len(L) |-> IntIx(L[i])])

\* The Sequence the last call returned has the symbols and the quality of
\* outcome r of __getitem__.
SameAsOutcome(r) ==
    /\ SeqBytes(last.res)' = DataIn(r.h, r.rec.bytes)
    /\ HasQuality(last.res)' = (r.rec.quality # 0)
    /\ r.rec.quality # 0 => SeqQuality(last.res)' = DataIn(r.h, r.rec.quality)

\* C22, as stated: for every list L of integers, in range or not, s[L] and
\* s[L + [slice(0, 0)]] both fail or both return the same symbols and quality.
C22_SamePaths ==
    [][MixedIntList' =>
         LET r == GetItemResult(Heap, last'.src, IntList(IntPart'), TRUE)
         IN  /\ (r.err # "") = (last'.err # "")
             /\ r.err = "" => SameAsOutcome(r)]_vars

\* C22, amended: s[L + [slice(0, 0)]] never fails and returns the symbols and
\* quality at the positions of L that are in range, in order; when every
\* integer of L is in [-N, N), s[L] returns the same symbols and quality, and
\* otherwise s[L] fails with IndexError.
C22_SamePathsInRange ==
    [][MixedIntList' =>
         LET r == GetItemResult(Heap, last'.src, IntList(IntPart'), TRUE)
             n == SeqLen(last'.src)
         IN  /\ last'.err = ""
             /\ Selects(last.src, last.res, KeptPositions(IntPart, SeqLen(last.src)))'
             /\ IF \A i \in 1..Len(IntPart') : InRange(IntPart'[i], n)
                THEN r.err = "" /\ SameAsOutcome(r)
                ELSE r.err = "IndexError"]_vars

\* C22 witness: a Sequence of two symbols with a quality was indexed with
\* [1, -2, slice(0, 0)] and the second symbol comes first in the result.
C22_Witness ==
    /\ MixedIntList /\ IntPart = <<1, 0 - 2>> /\ last.err = ""
    /\ SeqLen(last.src) = 2 /\ HasQuality(last.src)
    /\ SeqBytes(last.src) = <<65, 67>> /\ SeqBytes(last.res) = <<67, 65>>
    /\ SeqQuality(last.res) = <<0, 1>>


====
